---- MODULE Spec2Model ----
(***************************************************************************)
(* The asynchronous job coordinator of iLoveMD (Submit / runner / Poll),   *)
(* as implemented by its four deployments:                                 *)
(*   "modal"  src/modal-deployment/modal_app.py   file-per-job store on a  *)
(*            volume, runner as an asyncio task, Poll with bounded retry;  *)
(*   "cli"    src/marker_server.py                in-memory dict,          *)
(*            marker_single run as a subprocess inside the handler;        *)
(*   "local"  src/public/scripts/marker_server.py in-memory dict,          *)
(*            in-process convert_single_pdf;                               *)
(*   "hf"     src/huggingface-space/app.py        in-memory dict,          *)
(*            in-process convert_single_pdf behind process_pdf.            *)
(*                                                                         *)
(* Handlers are `async def` functions on one event loop per process: a     *)
(* handler runs without interruption by another handler of the same        *)
(* process between two awaits.  The steps below split a handler where an   *)
(* await, an exception or another process (the file store is shared by     *)
(* every container of the modal deployment) can come in between.           *)
(***************************************************************************)
EXTENDS Integers, Sequences, FiniteSets, Bags, TLC

VARIABLES
    variant,    \* which deployment runs
    store,      \* the job store: id -> record (dict entry, or file on the volume)
    uploads,    \* ids whose input artifact (uploaded file / upload dir) exists
    outputs,    \* ids whose output directory exists (cli)
    env,        \* os.environ["GEMINI_API_KEY"] of the server process
    startEnv,   \* the GEMINI_API_KEY the process was started with
    inp,        \* the form fields of a submission while its handler runs
    spc,        \* position of each Submit handler
    sresp,      \* HTTP status Submit answered with (0: not answered yet)
    proc,       \* modal: the container that served the Submit and runs its task
    orig,       \* local original_key of the handler / of process_pdf
    convEnv,    \* the GEMINI_API_KEY the conversion call of a job ran under
    rpc,        \* modal: position of the run_conversion_task of each job
    result,     \* modal: what convert_pdf.remote() gave the task
    jd,         \* modal: the task's local job_data
    exc,        \* modal: text of the exception the task is handling
    hangs,      \* ids whose conversion did not return by itself
    outcome,    \* what the conversion of each job came to: success or failure
    children,   \* ids whose marker_single subprocess is running (cli)
    tasks,      \* modal: web_app.state.conversion_tasks, per container
    poll,       \* modal: the Poll requests in progress, a bag: position and locals
    polls,      \* how many Poll requests have arrived
    delivered,  \* per id, how many Polls have answered with the job's payload
    last        \* the Poll answered last: id, whether it arrived after a delivery
                \* of that id, and the response

vars == <<variant, store, uploads, outputs, env, startEnv, inp, spc, sresp, proc, orig,
          convEnv, rpc, result, jd, exc, hangs, outcome, children, tasks, poll, polls,
          delivered, last>>

(***************************************************************************)
(* Bounds of the model.                                                    *)
(***************************************************************************)
MaxJobs == 2
MaxPolls == 2
\* The steps of the file store interleave across containers: the modal
\* deployment is explored with fewer submissions than the in-memory servers.
MaxModalJobs == 1

Ids == 1..MaxJobs
ModalIds == 1..MaxModalJobs
\* modal: the container that takes the submissions and runs their tasks, and
\* a second one; a Poll is served by either.  The in-memory servers are one
\* process.
Procs == {1, 2}
Variants == {"modal", "cli", "local", "hf"}
InMemory == {"cli", "local", "hf"}

(***************************************************************************)
(* Values.  Texts are tuples of tokens so that an f-string is a            *)
(* concatenation and `"timed out" in text` is a search.  None stands for   *)
(* Python's None and for a key a dict does not have.                       *)
(***************************************************************************)
None == <<"None">>
NoKey == "None"
Removed == "removed"

MAX_PDF_FILE_SIZE == 200 * 1024 * 1024

max_retries == 3

Truthy(s) == s \notin {NoKey, ""}

Contains(text, token) == \E i \in DOMAIN text : text[i] = token

\* The credential a caller of submission j may supply.
KeyOf(j) == IF j = 1 THEN "K1" ELSE IF j = 2 THEN "K2" ELSE "K3"

Markdown(j) == <<"markdown", j>>

Absent == [status |-> "absent", markdown |-> None, error |-> None,
           api_key |-> NoKey, filename |-> FALSE]

\* A half-written file whose beginning parses as a record: the status is
\* there, the payload is not.
Partial == [status |-> "complete", markdown |-> None, error |-> None,
            api_key |-> NoKey, filename |-> FALSE]
\* A file that open(path, 'w') has truncated and json.dump has not (fully) filled.
Torn == [status |-> "torn", markdown |-> None, error |-> None,
         api_key |-> NoKey, filename |-> FALSE]

NoJob == [status |-> "None", markdown |-> None, error |-> None,
          api_key |-> NoKey, filename |-> FALSE]

NoInput == [filename |-> "", size |-> 0, use_llm |-> "false", api_key |-> NoKey]

NoResp == [code |-> 0, status |-> "None", markdown |-> None, error |-> None]

IdlePoll == [pc |-> "idle", id |-> 0, proc |-> 0, attempt |-> 0, job |-> NoJob,
             after |-> FALSE, resp |-> NoResp]

NoAnswer == [id |-> 0, after |-> FALSE, resp |-> NoResp]

NoResult == [kind |-> "none", hang |-> FALSE, text |-> None]

\* A check_status that takes every status for a final one.
AnyStatus == {"processing", "complete", "error"}
Terminal == {"complete", "error"}

(***************************************************************************)
(* Pure helpers of the handlers.                                           *)
(***************************************************************************)
\* str_to_bool: the cli server does not accept 'on'.
str_to_bool(v) ==
    IF variant = "cli" THEN v \in {"true", "1", "yes"}
    ELSE IF variant = "modal" THEN v \in {"true", "1", "yes", "on"}
    ELSE v # NoKey /\ v \in {"true", "1", "yes", "on"}

\* file.filename.lower().endswith('.pdf'); cli and modal also reject no name.
IsPdf(name) == name \in {"a.pdf", "A.PDF"}

TooLarge(size) == size > MAX_PDF_FILE_SIZE

\* The finally blocks that put GEMINI_API_KEY back:
\*   if original_key: environ[...] = original_key
\*   elif "GEMINI_API_KEY" in os.environ: del environ[...]
RestoreKey(original_key) == IF Truthy(original_key) THEN original_key ELSE NoKey

\* if use_llm_bool and api_key: environ[...] = api_key
SetKey(use_llm_bool, api_key, current) ==
    IF use_llm_bool /\ Truthy(api_key) THEN api_key ELSE current

(***************************************************************************)
(* One event loop per process: a handler in the middle of a stretch        *)
(* without await keeps every other handler of its process from running.    *)
(***************************************************************************)
Busy(q) ==
    \/ \E j \in Ids : proc[j] = q /\ spc[j] \in {"conv", "remove", "hung", "write"}
    \/ \E j \in Ids : proc[j] = q
                        /\ rpc[j] \in {"open", "write", "xload", "xopen", "xwrite"}
    \/ \E r \in BagToSet(poll) : r.proc = q /\ r.pc \in {"load", "exists", "remove"}

\* Submissions take the ids in order.
NextJob(j) == spc[j] = "idle" /\ \A i \in Ids : i < j => spc[i] # "idle"

HasPayload(r) == r.code = 200 /\ r.status \in Terminal

Delivered(id) == delivered[id] > 0

\* The request cur answers with resp.
Answer(cur, resp) ==
    /\ last' = [id |-> cur.id, after |-> cur.after, resp |-> resp]
    /\ delivered' = IF HasPayload(resp) THEN [delivered EXCEPT ![cur.id] = @ + 1]
                    ELSE delivered

\* The request nxt has made a step: it answers, or stays with the others.
Passed(others, nxt) ==
    IF nxt.pc = "done"
    THEN poll' = others /\ Answer(nxt, nxt.resp)
    ELSE poll' = others (+) SetToBag({nxt}) /\ UNCHANGED <<last, delivered>>

Others(r) == poll (-) SetToBag({r})

Init ==
    /\ variant \in Variants
    /\ store = [j \in Ids |-> Absent]
    /\ uploads = {}
    /\ outputs = {}
    /\ env \in IF variant \in {"local", "hf"} THEN {NoKey, "", "E0"} ELSE {NoKey}
    /\ startEnv = env
    /\ inp = [j \in Ids |-> NoInput]
    /\ spc = [j \in Ids |-> "idle"]
    /\ sresp = [j \in Ids |-> 0]
    /\ proc = [j \in Ids |-> 0]
    /\ orig = [j \in Ids |-> NoKey]
    /\ convEnv = [j \in Ids |-> NoKey]
    /\ rpc = [j \in Ids |-> "none"]
    /\ result = [j \in Ids |-> NoResult]
    /\ jd = [j \in Ids |-> NoJob]
    /\ exc = [j \in Ids |-> None]
    /\ hangs = {}
    /\ outcome = [j \in Ids |-> "none"]
    /\ children = {}
    /\ tasks = [q \in Procs |-> {}]
    /\ poll = EmptyBag
    /\ polls = 0
    /\ delivered = [j \in Ids |-> 0]
    /\ last = NoAnswer

(***************************************************************************)
(* Submit: what the caller sends.  The form fields come with the request;  *)
(* the length of the upload is known once `await file.read()` has returned.*)
(***************************************************************************)
Sizes == {10, MAX_PDF_FILE_SIZE + 1}

Inputs(j) == [filename : {"a.pdf", "a.txt"},
              size : {0},
              use_llm : {"true", "false"},
              api_key : {NoKey, KeyOf(j)}]

\* The checks made before the upload is read: the file name and, in the hf
\* server only, the credential that use_llm needs.  0: passed.
ValidateForm(i) ==
    IF ~IsPdf(i.filename) THEN 400
    ELSE IF variant = "hf" /\ str_to_bool(i.use_llm) /\ ~Truthy(i.api_key) THEN 400
    ELSE 0

\* The size check made on the bytes read; the cli server has none.
ValidateSize(i) ==
    IF variant # "cli" /\ TooLarge(i.size) THEN 413 ELSE 0

\* The record Submit creates.
NewRecord(i) ==
    [status |-> "processing", markdown |-> None, error |-> None,
     api_key |-> IF variant = "local" THEN i.api_key
                 ELSE IF variant = "hf"
                      THEN (IF str_to_bool(i.use_llm) THEN i.api_key ELSE NoKey)
                 ELSE NoKey,
     filename |-> TRUE]

\* A handler that validates after it has saved the record.
RejectAfterSave(j, code) ==
    /\ spc' = [spc EXCEPT ![j] = "done"]
    /\ sresp' = [sresp EXCEPT ![j] = code]
    /\ store' = [store EXCEPT ![j] = NewRecord(NoInput)]

\* raise HTTPException(status_code=code, ...): the handler ends, the job
\* store is as it was.
Reject(j, code) ==
    /\ spc' = [spc EXCEPT ![j] = "done"]
    /\ sresp' = [sresp EXCEPT ![j] = code]
    /\ UNCHANGED store

\* The handler up to `await file.read()`.
SubmitStart(j) ==
    /\ NextJob(j)
    /\ variant = "modal" => j \in ModalIds
    /\ ~Busy(1)
    /\ proc' = [proc EXCEPT ![j] = 1]
    /\ \E i \in Inputs(j) :
         /\ IF ValidateForm(i) # 0
            THEN /\ Reject(j, ValidateForm(i))
                 /\ UNCHANGED <<inp, uploads, outputs>>
            ELSE /\ spc' = [spc EXCEPT ![j] = "read"]
                 /\ inp' = [inp EXCEPT ![j] = i]
                 \* cli: job_upload_dir and job_output_dir are made before the read
                 /\ uploads' = IF variant = "cli" THEN uploads \cup {j} ELSE uploads
                 /\ outputs' = IF variant = "cli" THEN outputs \cup {j} ELSE outputs
                 /\ UNCHANGED <<sresp, store>>
    /\ UNCHANGED <<variant, startEnv, hangs, outcome, children, env, orig, convEnv,
                   rpc, result, jd, exc, tasks, poll, polls, delivered, last>>

\* In-memory servers, after the read: size check, upload saved, record
\* created, credential put in place for the conversion that follows.
SubmitCreate(j) ==
    /\ variant \in InMemory
    /\ spc[j] = "read"
    /\ ~Busy(proc[j])
    /\ \E n \in Sizes :
         LET i == [inp[j] EXCEPT !.size = n]
         IN IF ValidateSize(i) # 0
            THEN /\ Reject(j, ValidateSize(i))
                 /\ inp' = [inp EXCEPT ![j] = NoInput]
                 /\ UNCHANGED <<uploads, env, orig, convEnv>>
            ELSE /\ spc' = [spc EXCEPT ![j] = "conv"]
                 /\ store' = [store EXCEPT ![j] = NewRecord(i)]
                 /\ uploads' = uploads \cup {j}
                 /\ orig' = [orig EXCEPT ![j] = env]
                 /\ env' = IF variant = "cli" THEN env
                           ELSE SetKey(str_to_bool(i.use_llm), i.api_key, env)
                 \* cli: the key goes into a copy of the environment for the child
                 /\ convEnv' = [convEnv EXCEPT ![j] =
                                  SetKey(str_to_bool(i.use_llm), i.api_key, env)]
                 /\ inp' = [inp EXCEPT ![j] = NoInput]
                 /\ UNCHANGED sresp
    /\ UNCHANGED <<variant, startEnv, hangs, outcome, children, outputs, proc, rpc,
                   result, jd, exc, tasks, poll, polls, delivered, last>>

(***************************************************************************)
(* The runner's updates of a record, and the status view Poll answers.     *)
(***************************************************************************)
SetComplete(rec, text) == [rec EXCEPT !.status = "complete", !.markdown = text]

SetError(rec, msg) == [rec EXCEPT !.status = "error", !.error = msg]

\* hf: del conversion_jobs[request_id]["options"]["_gemini_key"]
DropKey(rec) == [rec EXCEPT !.api_key = Removed]

\* A cleanup that removes the directory of all jobs.
rmtree_all(dirs, id) == {}

\* shutil.rmtree of the job's own directory, UPLOAD_DIR / request_id or
\* OUTPUT_DIR / request_id.
rmtree(dirs, id) == dirs \ {id}

\* What subprocess.run(cmd, timeout=300) and the search for the output give.
CliOutcomes == {"ok", "no_md", "rc", "timeout", "raise"}

CliUpdate(rec, how, j) ==
    CASE how = "ok" -> SetComplete(rec, Markdown(j))
      [] how = "no_md" -> SetError(rec, <<"No markdown file generated">>)
      [] how = "rc" -> SetError(rec, <<"Marker failed:", "stderr">>)
      [] how = "timeout" ->
           SetError(rec, <<"Conversion", "timed out", "(5 minutes)">>)
      [] OTHER -> SetError(rec, <<"exception">>)

\* response = {"status": ...} plus markdown or error
Response(job) ==
    [code |-> 200,
     status |-> job.status,
     markdown |-> IF job.status # "complete" THEN None
                  ELSE IF variant = "modal" /\ job.markdown = None THEN <<>>
                  ELSE job.markdown,
     error |-> IF job.status # "error" THEN None
               ELSE IF variant = "modal" /\ job.error = None THEN <<"Unknown error">>
               ELSE job.error]

NotFound == [NoResp EXCEPT !.code = 404]

ServerError == [NoResp EXCEPT !.code = 500]

(***************************************************************************)
(* cli: the subprocess runs inside the handler; the record gets its        *)
(* terminal state, the upload directory is removed, Submit answers.        *)
(***************************************************************************)
\* subprocess.run spawns marker_single and waits for it.
ConvertCliSpawn(j) ==
    /\ variant = "cli"
    /\ spc[j] = "conv"
    /\ j \notin children
    /\ children' = children \cup {j}
    /\ UNCHANGED <<variant, startEnv, hangs, outcome, store, uploads, outputs, env,
                   inp, spc, sresp, proc, orig, convEnv, rpc, result, jd, exc, tasks,
                   poll, polls, delivered, last>>

\* A wait that raises TimeoutExpired and leaves the child running.
ReapedUnlessTimeout(how, j) ==
    IF how = "timeout" THEN children ELSE children \ {j}

\* subprocess.run returns when the child has exited, and on the timeout it
\* kills the child and waits for it before it raises TimeoutExpired.
Reaped(how, j) == children \ {j}

ConvertCli(j) ==
    /\ variant = "cli"
    /\ spc[j] = "conv"
    /\ j \in children
    /\ \E how \in CliOutcomes :
         /\ store' = [store EXCEPT ![j] = CliUpdate(store[j], how, j)]
         \* subprocess.TimeoutExpired: the child had not returned after 300 s
         /\ hangs' = IF how = "timeout" THEN hangs \cup {j} ELSE hangs
         /\ outcome' = [outcome EXCEPT ![j] = IF how = "ok" THEN "success"
                                                ELSE "failure"]
         /\ children' = Reaped(how, j)
    /\ uploads' = rmtree(uploads, j)
    /\ spc' = [spc EXCEPT ![j] = "done"]
    /\ sresp' = [sresp EXCEPT ![j] = 200]
    /\ UNCHANGED <<variant, startEnv, outputs, env, inp, proc, orig, convEnv, rpc,
                   result, jd, exc, tasks, poll, polls, delivered, last>>

(***************************************************************************)
(* local: convert_single_pdf in the handler.  The record is marked         *)
(* complete before the upload is removed, inside the try whose handler     *)
(* marks it error.                                                         *)
(***************************************************************************)
ConvertLocal(j) ==
    /\ variant = "local"
    /\ spc[j] = "conv"
    /\ \/ /\ store' = [store EXCEPT ![j] = SetComplete(store[j], Markdown(j))]
          /\ spc' = [spc EXCEPT ![j] = "remove"]
          /\ outcome' = [outcome EXCEPT ![j] = "success"]
          /\ UNCHANGED <<env, sresp, orig, hangs>>
       \/ /\ store' = [store EXCEPT ![j] = SetError(store[j], <<"exception">>)]
          /\ env' = RestoreKey(orig[j])
          /\ orig' = [orig EXCEPT ![j] = NoKey]
          /\ spc' = [spc EXCEPT ![j] = "done"]
          /\ sresp' = [sresp EXCEPT ![j] = 200]
          /\ outcome' = [outcome EXCEPT ![j] = "failure"]
          /\ UNCHANGED hangs
       \/ \* the conversion never returns: nothing bounds it
          /\ spc' = [spc EXCEPT ![j] = "hung"]
          /\ hangs' = hangs \cup {j}
          /\ outcome' = [outcome EXCEPT ![j] = "failure"]
          /\ UNCHANGED <<store, env, sresp, orig>>
    /\ UNCHANGED <<variant, startEnv, children, uploads, outputs, inp, proc, convEnv,
                   rpc, result, jd, exc, tasks, poll, polls, delivered, last>>

\* if os.path.exists(file_path): os.remove(file_path), then the finally.
RemoveLocal(j) ==
    /\ variant = "local"
    /\ spc[j] = "remove"
    /\ \/ /\ uploads' = uploads \ {j}
          /\ UNCHANGED store
       \/ \* os.remove raises: except Exception marks the record
          /\ store' = [store EXCEPT ![j] = SetError(store[j], <<"exception">>)]
          /\ UNCHANGED uploads
    /\ env' = RestoreKey(orig[j])
    /\ spc' = [spc EXCEPT ![j] = "done"]
    /\ sresp' = [sresp EXCEPT ![j] = 200]
    /\ orig' = [orig EXCEPT ![j] = NoKey]
    /\ UNCHANGED <<variant, startEnv, hangs, outcome, children, outputs, inp, proc,
                   convEnv, rpc, result, jd, exc, tasks, poll, polls, delivered, last>>

(***************************************************************************)
(* hf: process_pdf converts and removes the upload; the record is updated  *)
(* by the caller once process_pdf has returned or raised.                  *)
(***************************************************************************)
ConvertHf(j) ==
    /\ variant = "hf"
    /\ spc[j] = "conv"
    /\ \/ /\ spc' = [spc EXCEPT ![j] = "remove"]
          /\ outcome' = [outcome EXCEPT ![j] = "success"]
          /\ UNCHANGED <<store, env, sresp, orig, hangs>>
       \/ /\ store' = [store EXCEPT ![j] = DropKey(SetError(store[j], <<"exception">>))]
          /\ env' = RestoreKey(orig[j])
          /\ orig' = [orig EXCEPT ![j] = NoKey]
          /\ spc' = [spc EXCEPT ![j] = "done"]
          /\ sresp' = [sresp EXCEPT ![j] = 200]
          /\ outcome' = [outcome EXCEPT ![j] = "failure"]
          /\ UNCHANGED hangs
       \/ \* the conversion never returns: nothing bounds it
          /\ spc' = [spc EXCEPT ![j] = "hung"]
          /\ hangs' = hangs \cup {j}
          /\ outcome' = [outcome EXCEPT ![j] = "failure"]
          /\ UNCHANGED <<store, env, sresp, orig>>
    /\ UNCHANGED <<variant, startEnv, children, uploads, outputs, inp, proc, convEnv,
                   rpc, result, jd, exc, tasks, poll, polls, delivered, last>>

RemoveHf(j) ==
    /\ variant = "hf"
    /\ spc[j] = "remove"
    /\ \/ /\ uploads' = uploads \ {j}
          /\ store' = [store EXCEPT ![j] = DropKey(SetComplete(store[j], Markdown(j)))]
       \/ /\ store' = [store EXCEPT ![j] = DropKey(SetError(store[j], <<"exception">>))]
          /\ UNCHANGED uploads
    /\ env' = RestoreKey(orig[j])
    /\ spc' = [spc EXCEPT ![j] = "done"]
    /\ sresp' = [sresp EXCEPT ![j] = 200]
    /\ orig' = [orig EXCEPT ![j] = NoKey]
    /\ UNCHANGED <<variant, startEnv, hangs, outcome, children, outputs, inp, proc,
                   convEnv, rpc, result, jd, exc, tasks, poll, polls, delivered, last>>

(***************************************************************************)
(* check_status of the in-memory servers: one stretch without await.       *)
(***************************************************************************)
Answered(cur, resp) ==
    [IdlePoll EXCEPT !.pc = "done", !.id = cur.id, !.after = cur.after, !.resp = resp]

PollMem(id) ==
    /\ variant \in InMemory
    /\ polls < MaxPolls
    /\ ~Busy(1)
    /\ polls' = polls + 1
    /\ Answer([IdlePoll EXCEPT !.id = id, !.after = Delivered(id)],
              IF store[id] = Absent THEN NotFound ELSE Response(store[id]))
    /\ store' = IF store[id].status \in Terminal
                THEN [store EXCEPT ![id] = Absent] ELSE store
    \* cli: shutil.rmtree(job["output_dir"]) on complete only
    /\ outputs' = IF variant = "cli" /\ store[id].status = "complete"
                  THEN rmtree(outputs, id) ELSE outputs
    /\ UNCHANGED <<variant, startEnv, hangs, outcome, children, uploads, env, inp, spc,
                   sresp, proc, orig, convEnv, rpc, result, jd, exc, tasks, poll>>

(***************************************************************************)
(* The health endpoints of the in-memory servers ("/" and "/health").      *)
(* The handler reads the dict and assigns nothing; what it answers is a    *)
(* function of the state it runs in.                                       *)
(***************************************************************************)
\* "active_jobs": len(jobs), the number of records in the dict.
active_jobs == Cardinality({j \in Ids : store[j] # Absent})

Health ==
    /\ variant \in InMemory
    /\ ~Busy(1)
    /\ UNCHANGED vars

(***************************************************************************)
(* modal: the job store is one JSON file per id on a volume.               *)
(***************************************************************************)
\* load_job: None when the file is not there or json.load fails on it.
load_job(f) == IF f.status \in {"absent", "torn"} THEN NoJob ELSE f

\* load_job(request_id) or {"status": "processing"}
LoadOrDefault(f) ==
    IF load_job(f) = NoJob THEN [NoJob EXCEPT !.status = "processing"] ELSE load_job(f)

\* json.dump through the handle that open(job_path, 'w') gave: the data reach
\* the file at job_path unless that file has been removed since.
Written(j, rec) == IF store[j] = Absent THEN store ELSE [store EXCEPT ![j] = rec]

\* What convert_pdf.remote() gives the task: the dict the function returns
\* (success, or the error its own handler reports), or an exception raised
\* in the caller -- also the one raised when the function hits its timeout
\* because the conversion never returns; timeout texts read "timeout" or
\* "timed out".
RemoteOutcomes(j) ==
    {[kind |-> "success", hang |-> FALSE, text |-> Markdown(j)],
     [kind |-> "failure", hang |-> FALSE, text |-> <<"Unexpected error:", "exception">>],
     [kind |-> "failure", hang |-> FALSE,
      text |-> <<"Conversion", "timed out", "(>9 minutes)">>],
     [kind |-> "raise", hang |-> FALSE, text |-> <<"exception">>],
     [kind |-> "raise", hang |-> TRUE, text |-> <<"timeout">>],
     [kind |-> "raise", hang |-> TRUE, text |-> <<"timed out">>]}

\* An update that takes every result that came back for a success.
TaskUpdateAnyResult(job_data, res) == SetComplete(job_data, res.text)

\* The try block's update of job_data from the result.
TaskUpdate(job_data, res) ==
    IF res.kind = "success" THEN SetComplete(job_data, res.text)
    ELSE SetError(job_data, res.text)

\* The except block's update: error_msg = f"Conversion error: {str(e)}"
TaskExcept(job_data, e) == SetError(job_data, <<"Conversion error:">> \o e)

\* marker_endpoint after the read: size check, then save_job opens the file.
SubmitSave(j) ==
    /\ variant = "modal"
    /\ spc[j] = "read"
    /\ ~Busy(proc[j])
    /\ inp' = [inp EXCEPT ![j] = NoInput]
    /\ \E n \in Sizes :
         LET i == [inp[j] EXCEPT !.size = n]
         IN IF ValidateSize(i) # 0
            THEN Reject(j, ValidateSize(i))
            ELSE \/ /\ store' = [store EXCEPT ![j] = Torn]
                    /\ spc' = [spc EXCEPT ![j] = "write"]
                    /\ UNCHANGED sresp
                 \/ \* open() raises: the handler fails
                    /\ spc' = [spc EXCEPT ![j] = "done"]
                    /\ sresp' = [sresp EXCEPT ![j] = 500]
                    /\ UNCHANGED store
    /\ UNCHANGED <<variant, startEnv, hangs, outcome, children, uploads, outputs, env,
                   proc, orig, convEnv, rpc, result, jd, exc, tasks, poll, polls,
                   delivered, last>>

\* json.dump, flush, fsync; then the task is created and registered and
\* Submit answers.
SubmitWrite(j) ==
    /\ variant = "modal"
    /\ spc[j] = "write"
    /\ \/ /\ store' = Written(j, NewRecord(inp[j]))
          /\ tasks' = [tasks EXCEPT ![proc[j]] = @ \cup {j}]
          /\ rpc' = [rpc EXCEPT ![j] = "await"]
          /\ sresp' = [sresp EXCEPT ![j] = 200]
       \/ \* the write fails part-way
          /\ sresp' = [sresp EXCEPT ![j] = 500]
          /\ UNCHANGED <<store, tasks, rpc>>
       \/ \* fsync fails after the data was written
          /\ store' = Written(j, NewRecord(inp[j]))
          /\ sresp' = [sresp EXCEPT ![j] = 500]
          /\ UNCHANGED <<tasks, rpc>>
    /\ spc' = [spc EXCEPT ![j] = "done"]
    /\ UNCHANGED <<variant, startEnv, hangs, outcome, children, uploads, outputs, env,
                   inp, proc, orig, convEnv, result, jd, exc, poll, polls, delivered,
                   last>>

\* convert_pdf.remote() finishes in its thread and the task resumes:
\* load_job and the update of job_data, in the try block or, when remote()
\* raised, in the except block.
TaskResume(j) ==
    /\ rpc[j] = "await"
    /\ ~Busy(proc[j])
    /\ \E res \in RemoteOutcomes(j) :
         /\ result' = [result EXCEPT ![j] = res]
         /\ hangs' = IF res.hang THEN hangs \cup {j} ELSE hangs
         /\ outcome' = [outcome EXCEPT ![j] = IF res.kind = "success" THEN "success"
                                                ELSE "failure"]
         /\ IF res.kind = "raise"
            THEN /\ jd' = [jd EXCEPT ![j] = TaskExcept(LoadOrDefault(store[j]), res.text)]
                 /\ rpc' = [rpc EXCEPT ![j] = "xopen"]
            ELSE /\ jd' = [jd EXCEPT ![j] = TaskUpdate(LoadOrDefault(store[j]), res)]
                 /\ rpc' = [rpc EXCEPT ![j] = "open"]
    /\ UNCHANGED <<variant, startEnv, children, store, uploads, outputs, env, inp, spc,
                   sresp, proc, orig, convEnv, exc, tasks, poll, polls, delivered,
                   last>>

\* A task that ends without the finally block.
TaskEndsNoFinally(j, how) ==
    /\ tasks' = tasks
    /\ rpc' = [rpc EXCEPT ![j] = how]
    /\ jd' = [jd EXCEPT ![j] = NoJob]
    /\ exc' = [exc EXCEPT ![j] = None]
    /\ result' = [result EXCEPT ![j] = NoResult]

\* The finally block: the task leaves the registry.
TaskEnds(j, how) ==
    /\ tasks' = [tasks EXCEPT ![proc[j]] = @ \ {j}]
    /\ rpc' = [rpc EXCEPT ![j] = how]
    /\ jd' = [jd EXCEPT ![j] = NoJob]
    /\ exc' = [exc EXCEPT ![j] = None]
    /\ result' = [result EXCEPT ![j] = NoResult]

\* save_job of the try block: open(job_path, 'w').
TaskOpen(j) ==
    /\ rpc[j] = "open"
    /\ \/ /\ store' = [store EXCEPT ![j] = Torn]
          /\ rpc' = [rpc EXCEPT ![j] = "write"]
          /\ UNCHANGED <<exc, result>>
       \/ /\ exc' = [exc EXCEPT ![j] = <<"oserror">>]
          /\ rpc' = [rpc EXCEPT ![j] = "xload"]
          /\ result' = [result EXCEPT ![j] = NoResult]
          /\ UNCHANGED store
    /\ UNCHANGED <<variant, startEnv, hangs, outcome, children, uploads, outputs, env,
                   inp, spc, sresp, proc, orig, convEnv, jd, tasks, poll, polls,
                   delivered, last>>

\* save_job of the try block: json.dump, flush, fsync.
TaskWrite(j) ==
    /\ rpc[j] = "write"
    /\ \/ /\ store' = Written(j, jd[j])
          /\ TaskEnds(j, "done")
       \/ /\ exc' = [exc EXCEPT ![j] = <<"oserror">>]
          /\ rpc' = [rpc EXCEPT ![j] = "xload"]
          /\ result' = [result EXCEPT ![j] = NoResult]
          /\ UNCHANGED <<store, jd, tasks>>
       \/ /\ store' = Written(j, jd[j])
          /\ exc' = [exc EXCEPT ![j] = <<"oserror">>]
          /\ rpc' = [rpc EXCEPT ![j] = "xload"]
          /\ result' = [result EXCEPT ![j] = NoResult]
          /\ UNCHANGED <<jd, tasks>>
    /\ UNCHANGED <<variant, startEnv, hangs, outcome, children, uploads, outputs, env,
                   inp, spc, sresp, proc, orig, convEnv, poll, polls, delivered, last>>

\* except Exception: load_job again and mark the job as failed.
TaskExceptLoad(j) ==
    /\ rpc[j] = "xload"
    /\ jd' = [jd EXCEPT ![j] = TaskExcept(LoadOrDefault(store[j]), exc[j])]
    /\ rpc' = [rpc EXCEPT ![j] = "xopen"]
    /\ UNCHANGED <<variant, startEnv, hangs, outcome, children, store, uploads,
                   outputs, env, inp, spc, sresp, proc, orig, convEnv, result, exc,
                   tasks, poll, polls, delivered, last>>

\* save_job of the except block: open.  A failure here leaves the task.
TaskExceptOpen(j) ==
    /\ rpc[j] = "xopen"
    /\ \/ /\ store' = [store EXCEPT ![j] = Torn]
          /\ rpc' = [rpc EXCEPT ![j] = "xwrite"]
          /\ UNCHANGED <<jd, exc, tasks, result>>
       \/ /\ TaskEnds(j, "failed")
          /\ UNCHANGED store
    /\ UNCHANGED <<variant, startEnv, hangs, outcome, children, uploads, outputs, env,
                   inp, spc, sresp, proc, orig, convEnv, poll, polls, delivered, last>>

\* save_job of the except block: json.dump, flush, fsync.
TaskExceptWrite(j) ==
    /\ rpc[j] = "xwrite"
    /\ \/ /\ store' = Written(j, jd[j])
          /\ TaskEnds(j, "done")
       \/ /\ TaskEnds(j, "failed")
          /\ UNCHANGED store
       \/ /\ store' = Written(j, jd[j])
          /\ TaskEnds(j, "failed")
    /\ UNCHANGED <<variant, startEnv, hangs, outcome, children, uploads, outputs, env,
                   inp, spc, sresp, proc, orig, convEnv, poll, polls, delivered, last>>

(***************************************************************************)
(* modal: check_status.  Up to max_retries loads (time.sleep between them  *)
(* keeps the event loop), then the answer and delete_job, which tests      *)
(* os.path.exists before os.remove.                                        *)
(***************************************************************************)
\* A pass that gives up at the first load that finds nothing.
LoadPassNoRetry(cur) ==
    LET job == load_job(store[cur.id])
    IN IF job # NoJob
       THEN IF job.status \in Terminal
            THEN [cur EXCEPT !.pc = "exists", !.job = job]
            ELSE Answered(cur, Response(job))
       ELSE Answered(cur, NotFound)

\* One pass of the retry loop of the request cur, and the answer when no
\* delete follows.
LoadPass(cur) ==
    LET job == load_job(store[cur.id])
    IN IF job # NoJob
       THEN IF job.status \in Terminal
            THEN [cur EXCEPT !.pc = "exists", !.job = job]
            ELSE Answered(cur, Response(job))
       ELSE IF cur.attempt + 1 < max_retries
            THEN [cur EXCEPT !.pc = "load", !.attempt = @ + 1]
            ELSE Answered(cur, NotFound)

\* A request arrives at a container and makes its first load.
PollStart(id, q) ==
    /\ variant = "modal"
    /\ polls < MaxPolls
    /\ ~Busy(q)
    /\ polls' = polls + 1
    /\ Passed(poll, LoadPass([IdlePoll EXCEPT !.id = id, !.proc = q,
                                              !.after = Delivered(id)]))
    /\ UNCHANGED <<variant, startEnv, hangs, outcome, children, store, uploads,
                   outputs, env, inp, spc, sresp, proc, orig, convEnv, rpc, result, jd,
                   exc, tasks>>

\* A later pass, after time.sleep(retry_delay).
PollLoad(r) ==
    /\ r.pc = "load"
    /\ Passed(Others(r), LoadPass(r))
    /\ UNCHANGED <<variant, startEnv, hangs, outcome, children, store, uploads,
                   outputs, env, inp, spc, sresp, proc, orig, convEnv, rpc, result, jd,
                   exc, tasks, polls>>

\* delete_job: if os.path.exists(job_path)
PollExists(r) ==
    /\ r.pc = "exists"
    /\ Passed(Others(r), IF store[r.id] # Absent THEN [r EXCEPT !.pc = "remove"]
                          ELSE Answered(r, Response(r.job)))
    /\ UNCHANGED <<variant, startEnv, hangs, outcome, children, store, uploads,
                   outputs, env, inp, spc, sresp, proc, orig, convEnv, rpc, result, jd,
                   exc, tasks, polls>>

\* delete_job: os.remove(job_path), which raises when the file is gone.
PollRemove(r) ==
    /\ r.pc = "remove"
    /\ IF store[r.id] # Absent
       THEN /\ store' = [store EXCEPT ![r.id] = Absent]
            /\ Passed(Others(r), Answered(r, Response(r.job)))
       ELSE /\ Passed(Others(r), Answered(r, ServerError))
            /\ UNCHANGED store
    /\ UNCHANGED <<variant, startEnv, hangs, outcome, children, uploads, outputs, env,
                   inp, spc, sresp, proc, orig, convEnv, rpc, result, jd, exc, tasks,
                   polls>>

Next ==
    \/ \E j \in Ids : SubmitStart(j)
    \/ \E j \in Ids : SubmitCreate(j)
    \/ \E j \in Ids : ConvertCliSpawn(j)
    \/ \E j \in Ids : ConvertCli(j)
    \/ \E j \in Ids : ConvertLocal(j)
    \/ \E j \in Ids : RemoveLocal(j)
    \/ \E j \in Ids : ConvertHf(j)
    \/ \E j \in Ids : RemoveHf(j)
    \/ \E id \in Ids : PollMem(id)
    \/ Health
    \/ \E j \in Ids : SubmitSave(j)
    \/ \E j \in Ids : SubmitWrite(j)
    \/ \E j \in Ids : TaskResume(j)
    \/ \E j \in Ids : TaskOpen(j)
    \/ \E j \in Ids : TaskWrite(j)
    \/ \E j \in Ids : TaskExceptLoad(j)
    \/ \E j \in Ids : TaskExceptOpen(j)
    \/ \E j \in Ids : TaskExceptWrite(j)
    \/ \E id \in ModalIds, q \in Procs : PollStart(id, q)
    \/ \E r \in BagToSet(poll) : PollLoad(r)
    \/ \E r \in BagToSet(poll) : PollExists(r)
    \/ \E r \in BagToSet(poll) : PollRemove(r)

Spec == Init /\ [][Next]_vars

(***************************************************************************)
(* What a server does by itself once a request has arrived: the rest of a  *)
(* handler and the conversion task.  The event loop runs every coroutine   *)
(* that is ready, so these steps are taken as long as one is enabled; the  *)
(* arrival of a request (SubmitStart, PollMem, PollStart) is the client's  *)
(* choice, and no code of any server runs on a timer.                      *)
(***************************************************************************)
Server ==
    \/ \E j \in Ids : SubmitCreate(j) \/ SubmitSave(j) \/ SubmitWrite(j)
    \/ \E j \in Ids : ConvertCliSpawn(j) \/ ConvertCli(j)
    \/ \E j \in Ids : ConvertLocal(j) \/ RemoveLocal(j)
    \/ \E j \in Ids : ConvertHf(j) \/ RemoveHf(j)
    \/ \E j \in Ids : TaskResume(j) \/ TaskOpen(j) \/ TaskWrite(j)
    \/ \E j \in Ids : TaskExceptLoad(j) \/ TaskExceptOpen(j) \/ TaskExceptWrite(j)
    \/ \E r \in BagToSet(poll) : PollLoad(r) \/ PollExists(r) \/ PollRemove(r)

FairSpec == Spec /\ WF_vars(Server)

(***************************************************************************)
(* Properties of the coordinator.                                          *)
(***************************************************************************)
\* C1: at-most-once delivery: a Poll that arrives after the payload of its id
\* has been returned answers NotFound (404), so no sequence of Polls returns
\* the payload of one job twice.
AtMostOnceDelivery == last.after => last.resp = NotFound

\* C2: per-job state machine: a record whose status is complete or error keeps
\* that status in every step of Submit and of the runner; it can only be
\* deleted.
TerminalIsFinal ==
    [][\A j \in Ids : store[j].status \in Terminal
                         => store'[j].status \in {store[j].status, "absent"}]_vars

\* C3: of the Polls that race for one terminal job exactly one answers with
\* the payload: a Poll that arrived before any delivery of its id and answers
\* with the payload is the only one to have answered with it.
OnePayloadPerRace ==
    \A id \in Ids : (last.id = id /\ ~last.after /\ HasPayload(last.resp))
                       => delivered[id] = 1

\* The collaborator of job j is at work.
Converting(j) == spc[j] \in {"conv", "hung"} \/ rpc[j] = "await"

\* C4: Submit is non-blocking: it has answered with the id while the
\* conversion of the job runs, so that a Poll can see the processing record.
SubmitDoesNotWait == \A j \in Ids : Converting(j) => sresp[j] = 200

\* C5: record payload invariant: a complete record has a result and no error,
\* an error record has an error message and no result, a processing record
\* has neither.
PayloadInvariant ==
    \A j \in Ids :
      /\ store[j].status = "complete"
            => store[j].markdown # None /\ store[j].error = None
      /\ store[j].status = "error"
            => store[j].error # None /\ store[j].markdown = None
      /\ store[j].status = "processing"
            => store[j].markdown = None /\ store[j].error = None

\* The runner of job j has yet to write the job's record.
RunnerActive(j) ==
    \/ spc[j] \in {"conv", "remove", "hung"}
    \/ rpc[j] \in {"await", "open", "write", "xload", "xopen", "xwrite"}

\* C6: liveness of resolution: every processing record is resolved to complete
\* or error by its runner, also when a store write fails; no sweep reclaims
\* a record, so a processing record always has a runner still to write it.
ProcessingResolves ==
    \A j \in Ids : store[j].status = "processing" => RunnerActive(j)

\* C7: deadline enforcement: a job whose conversion did not return gets an
\* error record whose message contains "timed out": the store holds that
\* record, or a Poll has retrieved it, or the runner that caught the deadline
\* is writing it.
DeadlineEnforced ==
    \A j \in hangs :
      \/ store[j].status = "error" /\ Contains(store[j].error, "timed out")
      \/ store[j] = Absent /\ Delivered(j)
      \/ rpc[j] \in {"xopen", "xwrite"}

\* C8: a Submit rejected by validation (400: not a PDF; 413: too large)
\* leaves the job store as it was, and no record exists for it afterwards.
RejectedLeavesStore ==
    [][\A j \in Ids : sresp'[j] \in {400, 413}
                         => /\ store'[j] = Absent
                            /\ sresp[j] = 0 => store' = store]_vars

\* A submission has been rejected for its size while the store holds the
\* finished record of another one.
RejectedWitness ==
    \E j, k \in Ids : sresp[j] = 413 /\ store[k].status \in Terminal

\* C9: no job record is created for a submission with use_llm true and no
\* credential.
NoRecordWithoutCredential ==
    [][\A j \in Ids :
         (store[j] = Absent /\ store'[j] # Absent)
            => ~(str_to_bool(inp[j].use_llm) /\ ~Truthy(inp[j].api_key))]_vars

\* C10: secret non-leakage: the record stored for a submission with use_llm
\* true and a credential does not hold the credential, and no Poll response
\* carries one.
NoSecretStored ==
    [][/\ \A j \in Ids : (str_to_bool(inp[j].use_llm) /\ Truthy(inp[j].api_key))
                             => store'[j].api_key # inp[j].api_key
       /\ \A j \in Ids : /\ ~Contains(last'.resp.markdown, KeyOf(j))
                          /\ ~Contains(last'.resp.error, KeyOf(j))]_vars

\* C11: conversion-time failures never fail Submit: every job whose
\* conversion failed (raised error, non-zero exit, missing output, timeout)
\* has its Submit answered 200, and the failure is captured in the record as
\* status error with a message: the store holds it, or a Poll has retrieved it,
\* or the runner is writing it.
FailureCaptured ==
    \A j \in Ids :
      outcome[j] = "failure"
        => /\ sresp[j] = 200
           /\ \/ store[j].status = "error" /\ store[j].error # None
              \/ store[j] = Absent /\ Delivered(j)
              \/ rpc[j] \in {"open", "write", "xload", "xopen", "xwrite"}

\* C12: once a Poll has retrieved and deleted the record of an id, no record
\* for that id exists again: no later Submit and no late or repeated Save of
\* its runner re-creates it.
DeletedStaysDeleted ==
    \A id \in Ids : Delivered(id) => store[id] = Absent

\* C13: artifact cleanup regardless of outcome: once the terminal record of a
\* job has been retrieved by a Poll, neither the job's input artifact nor its
\* output directory exists any more.
ArtifactsCleaned ==
    \A j \in Ids : Delivered(j) => j \notin uploads /\ j \notin outputs

\* C14: retention: a record that has reached a terminal state does not stay
\* in the store for ever: it is destroyed, by a Poll or, when no Poll comes,
\* by a background sweep.
TerminalRecordDestroyed ==
    \A j \in Ids : (store[j].status \in Terminal) ~> (store[j] = Absent)

\* C15: Delete is idempotent: the Delete of a Poll raises no error, also when
\* the record was deleted by another Poll between the existence check and
\* the removal: no Poll is answered with a server error.
DeleteNeverRaises ==
    last.resp.code # 500

\* A step in which a Poll is answered: one more request has its response.
PollAnswers ==
    polls' - BagCardinality(poll') > polls - BagCardinality(poll)

\* C16: a Poll of a job whose record is in status processing returns only the
\* status field and leaves the job store unchanged, however many such Polls
\* there are.
ProcessingPollReadsOnly ==
    [][(PollAnswers /\ last'.resp.status = "processing")
          => /\ last'.resp = [NoResp EXCEPT !.code = 200, !.status = "processing"]
             /\ store' = store]_vars

\* The last of several Polls has been answered with processing, and the
\* record is still there in that status.
ProcessingPollWitness ==
    /\ polls >= 2
    /\ poll = EmptyBag
    /\ last.id \in Ids
    /\ last.resp.status = "processing"
    /\ store[last.id].status = "processing"

\* C17: a Poll returns NotFound only when no record exists for the id: a Poll
\* answered NotFound for an id whose Submit has returned finds no record of
\* it in the store, and no NotFound Poll changes the store.
NotFoundOnlyWhenAbsent ==
    [][(PollAnswers /\ last'.resp = NotFound)
          => /\ store' = store
             /\ sresp[last'.id] = 200 => store[last'.id] = Absent]_vars

\* The record job of id carries the payload of its status.
Whole(job, id) ==
    /\ job.status = "complete" => job.markdown = Markdown(id)
    /\ job.status = "error" => job.error \notin {None, <<"Unknown error">>}

\* C18: no torn writes: every Poll that observes a terminal status observes
\* it with the full result or error of the same Save, in the record it has
\* loaded and in the response it gives, also when it runs while the runner
\* is rewriting the record.
TerminalObservedWhole ==
    /\ \A r \in BagToSet(poll) : r.job.status \in Terminal => Whole(r.job, r.id)
    /\ HasPayload(last.resp) => Whole(last.resp, last.id)

\* A Poll that found the record unreadable at first has then loaded the
\* complete record with its markdown.
TornThenWholeWitness ==
    \E r \in BagToSet(poll) :
      /\ r.attempt > 0
      /\ r.pc = "exists"
      /\ sresp[r.id] = 200
      /\ r.job.status = "complete"
      /\ r.job.markdown = Markdown(r.id)

\* C19: runner outcome classification: a record is complete only when the
\* conversion succeeded, and then its result is the text the conversion gave;
\* a conversion that failed leaves an error record with a message whenever it
\* leaves a terminal one, which in the in-memory servers is as soon as the
\* handler has returned.
OutcomeClassified ==
    \A j \in Ids :
      /\ store[j].status = "complete"
           => outcome[j] = "success" /\ store[j].markdown = Markdown(j)
      /\ jd[j].status = "complete"
           => outcome[j] = "success" /\ jd[j].markdown = Markdown(j)
      /\ (outcome[j] = "failure" /\ store[j].status \in Terminal)
           => store[j].status = "error" /\ store[j].error # None
      /\ (outcome[j] = "failure" /\ variant \in InMemory /\ spc[j] = "done"
            /\ ~Delivered(j))
           => store[j].status = "error"

\* One conversion has failed and left its error record, another one has
\* succeeded and left its markdown.
ClassifiedWitness ==
    \E j, k \in Ids :
      /\ outcome[j] = "failure" /\ store[j].status = "error"
      /\ outcome[k] = "success" /\ store[k].status = "complete"

\* C20: single mutation: after its creation a record is written once: every
\* step that writes an existing record finds it as Submit created it, in
\* status processing, or truncated by the one Save that is rewriting it; a
\* record that has its terminal state is not written again.
WrittenOnce ==
    [][\A j \in Ids :
         (store[j] # Absent /\ store'[j] # Absent /\ store'[j] # store[j])
            => store[j].status \in {"processing", "torn"}]_vars

\* The runner of j has been handed the job and has not finished.
TaskRunning(j) == rpc[j] \in {"await", "open", "write", "xload", "xopen", "xwrite"}

\* C21: runner task tracking: the registry of each container holds exactly
\* the ids of its tasks that have been started and have not finished: an id
\* is in it from the hand-over to the runner on, and leaves it when the
\* runner finishes, whether its save succeeded or raised.
TasksTracked ==
    \A q \in Procs : tasks[q] = {j \in Ids : proc[j] = q /\ TaskRunning(j)}

\* A runner has finished by an exception of its last save and is no longer
\* in the registry, while the job's record is still processing.
TaskFailedWitness ==
    \E j \in Ids : /\ rpc[j] = "failed"
                   /\ store[j].status = "processing"
                   /\ \A q \in Procs : j \notin tasks[q]

\* C22: bounded poll retry against the durable store: a Poll makes at most
\* max_retries loads, goes on to a further load only while it has found
\* nothing, answers from the first record it finds, and answers NotFound only
\* by a last load that finds nothing after all the earlier ones found nothing.
BoundedRetry ==
    [][/\ \A r \in BagToSet(poll') :
            /\ r.attempt < max_retries
            /\ r.pc = "load" => r.job = NoJob /\ r.attempt >= 1
            /\ r.pc \in {"exists", "remove"} => r.job.status \in Terminal
       /\ (variant = "modal" /\ PollAnswers /\ last'.resp = NotFound)
            => \E r \in BagToSet(poll) :
                 /\ r.pc = "load"
                 /\ r.id = last'.id
                 /\ r.attempt = max_retries - 1
                 /\ load_job(store[r.id]) = NoJob
                 /\ poll' = Others(r)]_vars

\* A Poll has found nothing twice, and the record has become readable before
\* its last load.
VisibleBeforeLastWitness ==
    \E r \in BagToSet(poll) :
      /\ r.pc = "load"
      /\ r.attempt = max_retries - 1
      /\ load_job(store[r.id]) # NoJob

\* C23: a store failure never fabricates job state: every terminal record in
\* the store is the record that Submit created, with the runner's status and
\* payload put into it; none is a record made up after a load that failed.
NoFabricatedRecord ==
    \A j \in Ids : store[j].status \in Terminal => store[j].filename

\* C24: on exceeding the deadline the child process is terminated: in every
\* state in which the timeout error of a job has been recorded (the record
\* holds it or a Poll has retrieved it), no subprocess of that job is running.
ChildTerminated ==
    \A j \in hangs :
      (store[j].status = "error" \/ Delivered(j)) => j \notin children

\* The conversion of a job has run into the deadline, the record says so,
\* and the child is gone.
TimedOutWitness ==
    \E j \in hangs :
      /\ variant = "cli"
      /\ store[j].status = "error"
      /\ Contains(store[j].error, "timed out")
      /\ j \notin children

\* C25: the options stored in a record at its creation are never mutated:
\* between creation and deletion the credential entry of the options keeps
\* the value it was given at submission.
OptionsNeverMutated ==
    [][\A j \in Ids :
         (store[j] # Absent /\ store'[j] # Absent)
            => store'[j].api_key = store[j].api_key]_vars

\* C27: credential variable restoration: when a conversion call that has set
\* GEMINI_API_KEY to its job's credential returns or raises, the variable
\* gets back exactly the value it had before the call: the same string, the
\* empty one included, or none if there was none.
CredentialRestored ==
    [][\A j \in Ids :
         (/\ variant \in {"local", "hf"}
          /\ spc[j] \in {"conv", "remove"}
          /\ spc'[j] = "done"
          /\ env = KeyOf(j))
            => env' = orig[j]]_vars

\* C26: credential isolation between jobs: the conversion call of a job never
\* runs under the credential another job supplied; it runs under its own
\* credential or under the value GEMINI_API_KEY had when the process started.
CredentialIsolated ==
    \A j \in Ids :
      (spc[j] \in {"conv", "remove", "hung"} \/ outcome[j] # "none")
        => /\ \A k \in Ids \ {j} : convEnv[j] # KeyOf(k)
           /\ convEnv[j] \in {KeyOf(j), startEnv}

\* Nothing of job k changes in this step: not its record, not its upload,
\* not its output directory.
Untouched(k) ==
    /\ store'[k] = store[k]
    /\ (k \in uploads') = (k \in uploads)
    /\ (k \in outputs') = (k \in outputs)

PersistedBeforeStart ==
    [][/\ \A j \in Ids :
            (/\ variant = "modal"
             /\ \/ rpc[j] = "none" /\ rpc'[j] # "none"
                \/ sresp[j] # 200 /\ sresp'[j] = 200)
               => store'[j].status = "processing" /\ store'[j].filename
       /\ \A r \in BagToSet(poll) :
            (/\ r.proc = proc[r.id]
             /\ sresp[r.id] = 200
             /\ ~Delivered(r.id)
             /\ PollAnswers
             /\ poll' = Others(r))
               => last'.resp # NotFound]_vars

\* The status a job has once its conversion has come to an end, whichever
\* way the collaborator is invoked.
Expected(j) == IF outcome[j] = "success" THEN "complete" ELSE "error"

\* C30: the subprocess variant and the in-process variant treat the
\* collaborator identically: in both, a job whose conversion has come to its
\* outcome has the status that belongs to the outcome, until a Poll has
\* retrieved it, and the Poll that retrieves it answers with that status and
\* the result or the error.
SameTreatment ==
    \A j \in Ids :
      (variant \in {"cli", "local"} /\ outcome[j] # "none")
        => /\ \/ store[j].status = Expected(j)
              \/ store[j] = Absent /\ Delivered(j)
           /\ (last.id = j /\ HasPayload(last.resp))
                => /\ last.resp.status = Expected(j)
                   /\ (last.resp.markdown # None) = (outcome[j] = "success")
                   /\ (last.resp.error # None) = (outcome[j] = "failure")

\* The jobs in flight: those whose record is in status processing.
InFlight == Cardinality({j \in Ids : store[j].status = "processing"})

\* C31: the health endpoint reports the count of in-flight jobs: in every
\* state in which it can be served, its active_jobs value equals the number
\* of jobs whose status is processing.
HealthCountsInFlight ==
    ENABLED Health => active_jobs = InFlight

====
